---- MODULE Spec2Model ----
(***************************************************************************)
(* SparseSet<V> of src/src/sparse_set.ts: three JavaScript arrays (sparse, *)
(* dense, data) and the operations has, get, add, remove, clear, ensure,   *)
(* tryGetIndex, size and the traversals.  Every operation is a function    *)
(* from the object's fields to the fields after the call and the value     *)
(* returned; an action of the state machine is one call of a public        *)
(* method.                                                                 *)
(***************************************************************************)
EXTENDS Integers, Sequences, FiniteSets, TLC

\* ---------------------------------------------------------------- bounds
MaxId == 1
NumVals == 2
\* The longest dense array the re-entrant runs build: there an id can be
\* appended again and again.
MaxDense == 4
\* The growth runs: ids up to MinCapacity * 2^MaxExp, at most MaxGrowSize
\* entries at a time.
MaxExp == 2
MaxGrowSize == 2

\* ------------------------------------------------------------- constants
MinCapacity == 1024
Undefined == -2
Null == 0
NotFound == -1

\* Identifiers the callers use: the small ones, and one at the first
\* capacity of the sparse array, which takes growSparse through its loop.
Ids == (0 .. MaxId) \cup {MinCapacity}
Values == 1 .. NumVals

VARIABLES sparse, sparseLen, dense, data, lastCall, ref, order, trav, ens

vars == <<sparse, sparseLen, dense, data, lastCall, ref, order, trav, ens>>

\* The object: its three private fields.  A JavaScript array is its length
\* and its elements; sparse has holes, so its elements are a function that
\* is Undefined at a hole, and its length is kept apart.
This == [sparse |-> sparse, sparseLen |-> sparseLen, dense |-> dense, data |-> data]

\* ------------------------------------------------- JavaScript array steps
\* arr[i]: undefined outside 0 .. length-1.
ArrayGet(arr, i) == IF i >= 0 /\ i < Len(arr) THEN arr[i + 1] ELSE Undefined

\* arr[i] = x: overwrites inside the array, extends it (with holes) outside.
ArraySet(arr, i, x) ==
  IF i < Len(arr)
    THEN [arr EXCEPT ![i + 1] = x]
    ELSE arr \o [k \in 1 .. (i - Len(arr)) |-> Undefined] \o <<x>>

\* arr.pop(): drops the last element, nothing on an empty array.
ArrayPop(arr) == IF Len(arr) = 0 THEN arr ELSE SubSeq(arr, 1, Len(arr) - 1)

\* this.sparse[id] = x: writes the slot, the length covers it afterwards.
SparseAssign(S, id, x) ==
  [S EXCEPT !.sparse = [S.sparse EXCEPT ![id] = x],
            !.sparseLen = IF id < S.sparseLen THEN S.sparseLen ELSE id + 1]

\* delete this.sparse[id]: the slot becomes a hole, the length stays.
SparseDelete(S, id) == [S EXCEPT !.sparse = [S.sparse EXCEPT ![id] = Undefined]]

\* ------------------------------------------------------------ growSparse
RECURSIVE DoubleUntil(_, _)
DoubleUntil(newLen, minId) ==
  IF newLen <= minId THEN DoubleUntil(newLen * 2, minId) ELSE newLen

\* growSparse that allocates the longer array and copies nothing into it.
growSparseRealloc(S, minId) ==
  IF minId < S.sparseLen
    THEN S
    ELSE [S EXCEPT !.sparse = [j \in DOMAIN S.sparse |-> Undefined],
                   !.sparseLen =
                     DoubleUntil(IF S.sparseLen = 0 THEN MinCapacity ELSE S.sparseLen * 2,
                                 minId)]

\* growSparse without its loop: one doubling, however large minId is.
growSparseNoLoop(S, minId) ==
  IF minId < S.sparseLen
    THEN S
    ELSE [S EXCEPT !.sparseLen = IF S.sparseLen = 0 THEN MinCapacity ELSE S.sparseLen * 2]

\* growSparse without its early return, doubling from the first capacity:
\* a shorter length drops the slots past it.
growSparseFromMin(S, minId) ==
  LET newLen == DoubleUntil(MinCapacity, minId)
  IN  [S EXCEPT !.sparse = [j \in DOMAIN S.sparse |->
                             IF j < newLen THEN S.sparse[j] ELSE Undefined],
                !.sparseLen = newLen]

growSparse(S, minId) ==
  IF minId < S.sparseLen
    THEN S
    ELSE [S EXCEPT !.sparseLen =
            DoubleUntil(IF S.sparseLen = 0 THEN MinCapacity ELSE S.sparseLen * 2, minId)]

\* ----------------------------------------------------------------- reads
has(S, id) ==
  LET index == S.sparse[id]
  IN  index # Undefined /\ ArrayGet(S.dense, index) = id

\* has of the earlier implementation, with the range check spelt out.
hasRangeChecked(S, id) ==
  LET index == S.sparse[id]
  IN  index # Undefined /\ index < Len(S.dense) /\ ArrayGet(S.dense, index) = id

get(S, id) ==
  LET index == S.sparse[id]
  IN  IF index # Undefined /\ ArrayGet(S.dense, index) = id
        THEN ArrayGet(S.data, index)
        ELSE Null

tryGetIndexTruthy(S, id) ==
  LET idx == S.sparse[id]
  IN  IF idx # Undefined /\ idx # 0 /\ ArrayGet(S.dense, idx) = id THEN idx ELSE NotFound

tryGetIndex(S, id) ==
  LET idx == S.sparse[id]
  IN  IF idx # Undefined /\ ArrayGet(S.dense, idx) = id THEN idx ELSE NotFound

size(S) == Len(S.dense)

\* ------------------------------------------------------------ traversals
\* [Symbol.iterator]: the length is read once, before the loop.
RECURSIVE IteratorFrom(_, _, _)
IteratorFrom(S, i, len) ==
  IF i < len
    THEN <<[id |-> ArrayGet(S.dense, i), value |-> ArrayGet(S.data, i)]>>
         \o IteratorFrom(S, i + 1, len)
    ELSE <<>>

iterator(S) == IteratorFrom(S, 0, Len(S.dense))

RECURSIVE IdsFrom(_, _)
IdsFrom(S, i) ==
  IF i < Len(S.dense) THEN <<ArrayGet(S.dense, i)>> \o IdsFrom(S, i + 1) ELSE <<>>

ids(S) == IdsFrom(S, 0)

\* values(): the loop runs over data.
RECURSIVE ValuesFrom(_, _)
ValuesFrom(S, i) ==
  IF i < Len(S.data) THEN <<ArrayGet(S.data, i)>> \o ValuesFrom(S, i + 1) ELSE <<>>

values(S) == ValuesFrom(S, 0)

\* entries(): [id, value] tuples.
RECURSIVE EntriesFrom(_, _)
EntriesFrom(S, i) ==
  IF i < Len(S.dense)
    THEN <<<<ArrayGet(S.dense, i), ArrayGet(S.data, i)>>>> \o EntriesFrom(S, i + 1)
    ELSE <<>>

\* entries() with the tuple in the order of forEach's arguments.
RECURSIVE EntriesSwappedFrom(_, _)
EntriesSwappedFrom(S, i) ==
  IF i < Len(S.dense)
    THEN <<<<ArrayGet(S.data, i), ArrayGet(S.dense, i)>>>> \o EntriesSwappedFrom(S, i + 1)
    ELSE <<>>

entriesSwapped(S) == EntriesSwappedFrom(S, 0)

entries(S) == EntriesFrom(S, 0)

\* forEach(fn): the argument lists fn is called with, (value, id).
RECURSIVE ForEachFrom(_, _)
ForEachFrom(S, i) ==
  IF i < Len(S.dense)
    THEN <<<<ArrayGet(S.data, i), ArrayGet(S.dense, i)>>>> \o ForEachFrom(S, i + 1)
    ELSE <<>>

forEach(S) == ForEachFrom(S, 0)

\* ------------------------------------------------------------------- add
addNoOverwrite(S, id, value) ==
  LET index == Len(S.dense)
      S1 == [S EXCEPT !.dense = ArraySet(S.dense, index, id),
                      !.data = ArraySet(S.data, index, value)]
  IN  [st |-> SparseAssign(growSparse(S1, id), id, index), ret |-> value]

addMoveToEnd(S, id, value) ==
  LET existing == S.sparse[id]
      gone == IF existing # Undefined /\ ArrayGet(S.dense, existing) = id
                THEN [S EXCEPT !.dense = SubSeq(S.dense, 1, existing)
                                         \o SubSeq(S.dense, existing + 2, Len(S.dense)),
                               !.data = SubSeq(S.data, 1, existing)
                                        \o SubSeq(S.data, existing + 2, Len(S.data)),
                               !.sparse = [j \in DOMAIN S.sparse |->
                                             IF S.sparse[j] # Undefined /\ S.sparse[j] > existing
                                               THEN S.sparse[j] - 1
                                               ELSE S.sparse[j]]]
                ELSE S
  IN  addNoOverwrite(gone, id, value)

add(S, id, value) ==
  LET existing == S.sparse[id]
  IN  IF existing # Undefined /\ ArrayGet(S.dense, existing) = id
        THEN [st |-> [S EXCEPT !.data = ArraySet(S.data, existing, value)],
              ret |-> value]
        ELSE LET index == Len(S.dense)
                 S1 == [S EXCEPT !.dense = ArraySet(S.dense, index, id),
                                 !.data = ArraySet(S.data, index, value)]
             IN  [st |-> SparseAssign(growSparse(S1, id), id, index), ret |-> value]

\* ---------------------------------------------------------------- remove
\* Lines 89-93: the last entry moves into the slot at index.
swapLastNoRepoint(S, index) ==
  LET lastIndex == Len(S.dense) - 1
      lastId == ArrayGet(S.dense, lastIndex)
  IN  IF index # lastIndex
        THEN [S EXCEPT !.dense = ArraySet(S.dense, index, lastId),
                       !.data = ArraySet(S.data, index, ArrayGet(S.data, lastIndex))]
        ELSE S

swapLastIdOnly(S, index) ==
  LET lastIndex == Len(S.dense) - 1
      lastId == ArrayGet(S.dense, lastIndex)
  IN  IF index # lastIndex
        THEN SparseAssign([S EXCEPT !.dense = ArraySet(S.dense, index, lastId)],
                          lastId, index)
        ELSE S

swapLast(S, index) ==
  LET lastIndex == Len(S.dense) - 1
      lastId == ArrayGet(S.dense, lastIndex)
  IN  IF index # lastIndex
        THEN SparseAssign(
               [S EXCEPT !.dense = ArraySet(S.dense, index, lastId),
                         !.data = ArraySet(S.data, index, ArrayGet(S.data, lastIndex))],
               lastId, index)
        ELSE S

\* remove whose early return is lost: an absent id still pops the arrays.
removeAlwaysPop(S, id) ==
  LET index == S.sparse[id]
      S1 == IF index = Undefined \/ ArrayGet(S.dense, index) # id
              THEN S
              ELSE swapLast(S, index)
      S2 == [S1 EXCEPT !.dense = ArrayPop(S1.dense), !.data = ArrayPop(S1.data)]
  IN  [st |-> SparseDelete(S2, id), ret |-> Undefined]

\* remove that pops the arrays only where it moved the last entry.
removePopOnlyOnSwap(S, id) ==
  LET index == S.sparse[id]
  IN  IF index = Undefined \/ ArrayGet(S.dense, index) # id
        THEN [st |-> S, ret |-> Undefined]
        ELSE LET S1 == swapLast(S, index)
                 S2 == IF index # Len(S.dense) - 1
                         THEN [S1 EXCEPT !.dense = ArrayPop(S1.dense),
                                         !.data = ArrayPop(S1.data)]
                         ELSE S1
             IN  [st |-> SparseDelete(S2, id), ret |-> Undefined]

\* remove that leaves the removed id's sparse slot as it was.
removeNoDelete(S, id) ==
  LET index == S.sparse[id]
  IN  IF index = Undefined \/ ArrayGet(S.dense, index) # id
        THEN [st |-> S, ret |-> Undefined]
        ELSE LET S1 == swapLast(S, index)
             IN  [st |-> [S1 EXCEPT !.dense = ArrayPop(S1.dense),
                                    !.data = ArrayPop(S1.data)],
                  ret |-> Undefined]

remove(S, id) ==
  LET index == S.sparse[id]
  IN  IF index = Undefined \/ ArrayGet(S.dense, index) # id
        THEN [st |-> S, ret |-> Undefined]
        ELSE LET S1 == swapLast(S, index)
                 S2 == [S1 EXCEPT !.dense = ArrayPop(S1.dense),
                                  !.data = ArrayPop(S1.data)]
             IN  [st |-> SparseDelete(S2, id), ret |-> Undefined]

\* ----------------------------------------------------------------- clear
\* array.length = 0 drops every element of the array.
clearKeepSparse(S) == [st |-> [S EXCEPT !.dense = <<>>, !.data = <<>>], ret |-> Undefined]

clear(S) ==
  [st |-> [sparse |-> [id \in DOMAIN S.sparse |-> Undefined],
           sparseLen |-> 0,
           dense |-> <<>>,
           data |-> <<>>],
   ret |-> Undefined]

\* ---------------------------------------------------------------- ensure
\* factory is a function without arguments; made is the value it produces
\* when it is called, calls the number of times ensure called it.
ensureAlwaysMake(S, id, made) ==
  LET index == S.sparse[id]
  IN  IF index # Undefined /\ ArrayGet(S.dense, index) = id
        THEN [st |-> [S EXCEPT !.data = ArraySet(S.data, index, made)],
              ret |-> made, calls |-> 1]
        ELSE [st |-> add(S, id, made).st, ret |-> made, calls |-> 1]

ensureNoGrow(S, id, made) ==
  LET index == S.sparse[id]
  IN  IF index # Undefined /\ ArrayGet(S.dense, index) = id
        THEN [st |-> S, ret |-> ArrayGet(S.data, index), calls |-> 0]
        ELSE LET index1 == Len(S.dense)
                 S1 == [S EXCEPT !.dense = ArraySet(S.dense, index1, id),
                                 !.data = ArraySet(S.data, index1, made)]
             IN  [st |-> SparseAssign(S1, id, index1), ret |-> made, calls |-> 1]

ensure(S, id, made) ==
  LET index == S.sparse[id]
  IN  IF index # Undefined /\ ArrayGet(S.dense, index) = id
        THEN [st |-> S, ret |-> ArrayGet(S.data, index), calls |-> 0]
        ELSE LET index1 == Len(S.dense)
                 S1 == [S EXCEPT !.dense = ArraySet(S.dense, index1, id),
                                 !.data = ArraySet(S.data, index1, made)]
             IN  [st |-> SparseAssign(growSparse(S1, id), id, index1),
                  ret |-> made, calls |-> 1]

\* ------------------------------------------------------- the state machine
\* lastCall: the call that produced the state (its arguments, its result,
\* how often it called the factory, what tryGetIndex(id), size and the
\* length of sparse were before it, and for an add the dense index its id had when the call just
\* before removed it).  ref: the reference map, what a caller who only
\* remembers its own calls knows: the value it last wrote for an id, Null
\* once it removed the id or cleared the set.  order, trav and ens belong to
\* the insert-only callers, the traversals and the re-entrant ensure below;
\* the calls of Spec leave them alone.
NoTraversal ==
  [form |-> "none", i |-> 0, len |-> 0, done |-> FALSE, clean |-> TRUE,
   late |-> FALSE, out |-> <<>>]

NoEnsure == [pc |-> "idle", id |-> Undefined, made |-> Null, ret |-> Undefined]

NewSet ==
  [sparse |-> [id \in Ids |-> Undefined], sparseLen |-> 0, dense |-> <<>>, data |-> <<>>]

Init ==
  /\ sparse = NewSet.sparse
  /\ sparseLen = NewSet.sparseLen
  /\ dense = NewSet.dense
  /\ data = NewSet.data
  /\ lastCall = [name |-> "new", id |-> Undefined, value |-> Null, ret |-> Undefined,
                 calls |-> 0, idx |-> NotFound, size |-> 0, sparseLen |-> 0,
                 prevIdx |-> NotFound]
  /\ ref = [id \in Ids |-> Null]
  /\ order = <<>>
  /\ trav = NoTraversal
  /\ ens = NoEnsure

Becomes(S) ==
  /\ sparse' = S.sparse
  /\ sparseLen' = S.sparseLen
  /\ dense' = S.dense
  /\ data' = S.data

Add(id, value) ==
  LET r == add(This, id, value)
  IN  /\ Becomes(r.st)
      /\ lastCall' = [name |-> "add", id |-> id, value |-> value, ret |-> r.ret,
                      calls |-> 0, idx |-> tryGetIndex(This, id), size |-> size(This), sparseLen |-> sparseLen,
                      prevIdx |-> IF lastCall.name = "remove" /\ lastCall.id = id
                                    THEN lastCall.idx
                                    ELSE NotFound]
      /\ ref' = [ref EXCEPT ![id] = value]
      /\ UNCHANGED <<order, trav, ens>>

Remove(id) ==
  LET r == remove(This, id)
  IN  /\ Becomes(r.st)
      /\ lastCall' = [name |-> "remove", id |-> id, value |-> Null, ret |-> r.ret,
                      calls |-> 0, idx |-> tryGetIndex(This, id), size |-> size(This), sparseLen |-> sparseLen,
                      prevIdx |-> NotFound]
      /\ ref' = [ref EXCEPT ![id] = Null]
      /\ UNCHANGED <<order, trav, ens>>

Clear ==
  LET r == clear(This)
  IN  /\ Becomes(r.st)
      /\ lastCall' = [name |-> "clear", id |-> Undefined, value |-> Null, ret |-> r.ret,
                      calls |-> 0, idx |-> NotFound, size |-> size(This), sparseLen |-> sparseLen,
                      prevIdx |-> NotFound]
      /\ ref' = [id \in Ids |-> Null]
      /\ UNCHANGED <<order, trav, ens>>

Ensure(id, made) ==
  LET r == ensure(This, id, made)
  IN  /\ Becomes(r.st)
      /\ lastCall' = [name |-> "ensure", id |-> id, value |-> made, ret |-> r.ret,
                      calls |-> r.calls, idx |-> tryGetIndex(This, id), size |-> size(This), sparseLen |-> sparseLen,
                      prevIdx |-> NotFound]
      /\ ref' = [ref EXCEPT ![id] = IF ref[id] = Null THEN made ELSE ref[id]]
      /\ UNCHANGED <<order, trav, ens>>

Next ==
  \/ \E id \in Ids, value \in Values : Add(id, value)
  \/ \E id \in Ids : Remove(id)
  \/ Clear
  \/ \E id \in Ids, made \in Values : Ensure(id, made)

Spec == Init /\ [][Next]_vars

\* ------------------------------------------------- insert-only histories
\* Callers that never remove a present id and never clear.  order is the
\* list of the ids in the order of their first insertion.
InsertOnlyAdd(id, value) ==
  LET r == add(This, id, value)
  IN  /\ Becomes(r.st)
      /\ lastCall' = [name |-> "add", id |-> id, value |-> value, ret |-> r.ret,
                      calls |-> 0, idx |-> tryGetIndex(This, id),
                      size |-> size(This), sparseLen |-> sparseLen,
                      prevIdx |-> NotFound]
      /\ ref' = [ref EXCEPT ![id] = value]
      /\ order' = IF id \in {order[k] : k \in 1 .. Len(order)}
                    THEN order
                    ELSE Append(order, id)
      /\ UNCHANGED <<trav, ens>>

InsertOnlyEnsure(id, made) ==
  LET r == ensure(This, id, made)
  IN  /\ Becomes(r.st)
      /\ lastCall' = [name |-> "ensure", id |-> id, value |-> made, ret |-> r.ret,
                      calls |-> r.calls, idx |-> tryGetIndex(This, id),
                      size |-> size(This), sparseLen |-> sparseLen,
                      prevIdx |-> NotFound]
      /\ ref' = [ref EXCEPT ![id] = IF ref[id] = Null THEN made ELSE ref[id]]
      /\ order' = IF id \in {order[k] : k \in 1 .. Len(order)}
                    THEN order
                    ELSE Append(order, id)
      /\ UNCHANGED <<trav, ens>>

InsertOnlyRemoveAbsent(id) ==
  /\ ~has(This, id)
  /\ LET r == remove(This, id)
     IN  /\ Becomes(r.st)
         /\ lastCall' = [name |-> "remove", id |-> id, value |-> Null, ret |-> r.ret,
                         calls |-> 0, idx |-> tryGetIndex(This, id),
                         size |-> size(This), sparseLen |-> sparseLen,
                         prevIdx |-> NotFound]
         /\ UNCHANGED <<ref, order, trav, ens>>

InsertOnlyNext ==
  \/ \E id \in Ids, value \in Values : InsertOnlyAdd(id, value)
  \/ \E id \in Ids, made \in Values : InsertOnlyEnsure(id, made)
  \/ \E id \in Ids : InsertOnlyRemoveAbsent(id)

InsertOnlySpec == Init /\ [][InsertOnlyNext]_vars

\* -------------------------------------------- traversals, step by step
\* One traversal at a time, resumed one step at a time; between two steps
\* (between two yields of a generator, inside the callback of forEach) the
\* caller may call add, remove or clear.  trav: the traversal's form, its
\* loop variable i, the length the iterator read when it started, whether
\* it has finished, whether the set changed since it started (clean),
\* whether it yielded after such a change (late) and, while clean, what it
\* yielded so far.
Forms == {"iterator", "ids", "values", "entries", "forEach"}

\* The component a form does not yield: ids() no value, values() no id.
NoField == -3

\* The bound of the loop that runs one element too far.
travBoundInclusive(S, form, len) ==
  IF form = "iterator" THEN len + 1
  ELSE IF form = "values" THEN Len(S.data) + 1
  ELSE Len(S.dense) + 1

\* The bound the loop condition compares i with.
travBound(S, form, len) ==
  IF form = "iterator" THEN len
  ELSE IF form = "values" THEN Len(S.data)
  ELSE Len(S.dense)

\* What the loop body yields (or passes to fn) at index i.
travYield(S, form, i) ==
  [id |-> IF form = "values" THEN NoField ELSE ArrayGet(S.dense, i),
   value |-> IF form = "ids" THEN NoField ELSE ArrayGet(S.data, i)]

TravStart(form) ==
  /\ trav' = [form |-> form, i |-> 0,
              len |-> IF form = "iterator" THEN Len(dense) ELSE 0,
              done |-> FALSE, clean |-> TRUE, late |-> FALSE, out |-> <<>>]
  /\ UNCHANGED <<sparse, sparseLen, dense, data, lastCall, ref, order, ens>>

TravStep ==
  /\ trav.form # "none"
  /\ ~trav.done
  /\ IF trav.i < travBound(This, trav.form, trav.len)
       THEN trav' = [trav EXCEPT !.i = trav.i + 1,
                                 !.late = trav.late \/ ~trav.clean,
                                 !.out = IF trav.clean
                                           THEN Append(trav.out,
                                                       travYield(This, trav.form, trav.i))
                                           ELSE <<>>]
       ELSE trav' = [trav EXCEPT !.done = TRUE]
  /\ UNCHANGED <<sparse, sparseLen, dense, data, lastCall, ref, order, ens>>

\* A call between two steps; the traversal is clean no longer when the call
\* changed the set.
TravCall(S) ==
  /\ Becomes(S)
  /\ trav' = IF trav.form = "none" \/ S = This
               THEN trav
               ELSE [trav EXCEPT !.clean = FALSE, !.out = <<>>]
  /\ UNCHANGED <<lastCall, ref, order, ens>>

TravAdd(id, value) == TravCall(add(This, id, value).st)

TravRemove(id) == TravCall(remove(This, id).st)

TravClear == TravCall(clear(This).st)

TravNext ==
  \/ \E form \in Forms : TravStart(form)
  \/ TravStep
  \/ \E id \in Ids, value \in Values : TravAdd(id, value)
  \/ \E id \in Ids : TravRemove(id)
  \/ TravClear

TravSpec == Init /\ [][TravNext]_vars

\* ------------------------------------------------ ensure, with its factory
\* ensure calls factory between its presence test and its insertion, and
\* factory is the caller's code: it may call the set.  ens: where the ensure
\* in progress is (in its factory, or just returned), its id, the value
\* its factory makes and the value it returned.
\* Lines 187-195: what ensure does once factory has returned value.
ensureInsert(S, id, value) ==
  LET index == Len(S.dense)
      S1 == [S EXCEPT !.dense = ArraySet(S.dense, index, id),
                      !.data = ArraySet(S.data, index, value)]
  IN  [st |-> SparseAssign(growSparse(S1, id), id, index), ret |-> value]

\* Lines 181-186: the presence test; a hit returns, a miss calls factory.
EnsureEnter(id, made) ==
  /\ ens.pc # "factory"
  /\ LET index == sparse[id]
     IN  IF index # Undefined /\ ArrayGet(dense, index) = id
           THEN ens' = [pc |-> "returned", id |-> id, made |-> made,
                        ret |-> ArrayGet(data, index)]
           ELSE ens' = [pc |-> "factory", id |-> id, made |-> made, ret |-> Undefined]
  /\ UNCHANGED <<sparse, sparseLen, dense, data, lastCall, ref, order, trav>>

EnsureExit ==
  /\ ens.pc = "factory"
  /\ Len(dense) < MaxDense
  /\ LET r == ensureInsert(This, ens.id, ens.made)
     IN  /\ Becomes(r.st)
         /\ ens' = [ens EXCEPT !.pc = "returned", !.ret = r.ret]
  /\ UNCHANGED <<lastCall, ref, order, trav>>

\* A call of the set, by factory while ensure waits for it, by the caller
\* otherwise.
ReentrantCall(S) ==
  /\ Becomes(S)
  /\ ens' = IF ens.pc = "factory" THEN ens ELSE NoEnsure
  /\ UNCHANGED <<lastCall, ref, order, trav>>

ReentrantAdd(id, value) ==
  /\ Len(dense) < MaxDense
  /\ ReentrantCall(add(This, id, value).st)

ReentrantRemove(id) == ReentrantCall(remove(This, id).st)

ReentrantClear == ReentrantCall(clear(This).st)

\* An ensure whose own factory does not call the set.
ReentrantEnsure(id, made) ==
  /\ Len(dense) < MaxDense
  /\ ReentrantCall(ensure(This, id, made).st)

ReentrantNext ==
  \/ \E id \in Ids, made \in Values : EnsureEnter(id, made)
  \/ EnsureExit
  \/ \E id \in Ids, value \in Values : ReentrantAdd(id, value)
  \/ \E id \in Ids : ReentrantRemove(id)
  \/ ReentrantClear
  \/ \E id \in Ids, made \in Values : ReentrantEnsure(id, made)

ReentrantSpec == Init /\ [][ReentrantNext]_vars

\* ------------------------------------------------------------ growth runs
\* Callers whose ids lie around the capacities the sparse array takes: the
\* last slot of a capacity and the first one past it.  The value stored
\* plays no part in the growth and is always the same.
RECURSIVE Pow2(_)
Pow2(k) == IF k = 0 THEN 1 ELSE 2 * Pow2(k - 1)

GrowIds ==
  {0} \cup {MinCapacity * Pow2(k) - 1 : k \in 0 .. MaxExp}
      \cup {MinCapacity * Pow2(k) : k \in 0 .. MaxExp}

GrowInit ==
  /\ sparse = [id \in GrowIds |-> Undefined]
  /\ sparseLen = 0
  /\ dense = <<>>
  /\ data = <<>>
  /\ lastCall = [name |-> "new", id |-> Undefined, value |-> Null, ret |-> Undefined,
                 calls |-> 0, idx |-> NotFound, size |-> 0, sparseLen |-> 0,
                 prevIdx |-> NotFound]
  /\ ref = [id \in Ids |-> Null]
  /\ order = <<>>
  /\ trav = NoTraversal
  /\ ens = NoEnsure

GrowAdd(id) ==
  /\ has(This, id) \/ size(This) < MaxGrowSize
  /\ LET r == add(This, id, NumVals)
     IN  /\ Becomes(r.st)
         /\ lastCall' = [name |-> "add", id |-> id, value |-> NumVals, ret |-> r.ret,
                         calls |-> 0, idx |-> tryGetIndex(This, id),
                         size |-> size(This), sparseLen |-> sparseLen,
                         prevIdx |-> NotFound]
  /\ UNCHANGED <<ref, order, trav, ens>>

GrowEnsure(id) ==
  /\ has(This, id) \/ size(This) < MaxGrowSize
  /\ LET r == ensure(This, id, NumVals)
     IN  /\ Becomes(r.st)
         /\ lastCall' = [name |-> "ensure", id |-> id, value |-> NumVals, ret |-> r.ret,
                         calls |-> r.calls, idx |-> tryGetIndex(This, id),
                         size |-> size(This), sparseLen |-> sparseLen,
                         prevIdx |-> NotFound]
  /\ UNCHANGED <<ref, order, trav, ens>>

GrowRemove(id) ==
  /\ LET r == remove(This, id)
     IN  /\ Becomes(r.st)
         /\ lastCall' = [name |-> "remove", id |-> id, value |-> Null, ret |-> r.ret,
                         calls |-> 0, idx |-> tryGetIndex(This, id),
                         size |-> size(This), sparseLen |-> sparseLen,
                         prevIdx |-> NotFound]
  /\ UNCHANGED <<ref, order, trav, ens>>

GrowClear ==
  /\ LET r == clear(This)
     IN  /\ Becomes(r.st)
         /\ lastCall' = [name |-> "clear", id |-> Undefined, value |-> Null,
                         ret |-> r.ret, calls |-> 0, idx |-> NotFound,
                         size |-> size(This), sparseLen |-> sparseLen,
                         prevIdx |-> NotFound]
  /\ UNCHANGED <<ref, order, trav, ens>>

GrowNext ==
  \/ \E id \in GrowIds : GrowAdd(id)
  \/ \E id \in GrowIds : GrowEnsure(id)
  \/ \E id \in GrowIds : GrowRemove(id)
  \/ GrowClear

GrowSpec == GrowInit /\ [][GrowNext]_vars

\* ------------------------------------------------------------------ claims
\* C1: has(id) is true exactly when the caller's most recent add, ensure or
\* remove of that id was an add or an ensure (ref[id] is then set), false
\* for an id never inserted; a call on another id leaves has(id) as it was.
C1_PresenceConsistency ==
  /\ [](\A id \in Ids : has(This, id) <=> ref[id] # Null)
  /\ [][\A id \in Ids :
          (lastCall'.name \in {"add", "ensure", "remove"} /\ lastCall'.id # id)
            => (has(This', id) <=> has(This, id))]_vars

\* An id was removed after its insertion while another id stays present.
C1_Witness ==
  /\ lastCall.name = "remove"
  /\ lastCall.idx # NotFound
  /\ ~has(This, lastCall.id)
  /\ \E j \in Ids : has(This, j)

\* C2: get(id) is the value most recently written for a present id (by add,
\* or made by the factory of the ensure that inserted it) and null for
\* every absent id.
C2_GetLastWritten == \A id \in Ids : get(This, id) = ref[id]

\* An ensure inserted its id while another id, removed or cleared, reads
\* null and a third one keeps its value.
C2_Witness ==
  /\ lastCall.name = "ensure"
  /\ lastCall.idx = NotFound
  /\ get(This, lastCall.id) = lastCall.value
  /\ \E j \in Ids : get(This, j) = Null
  /\ \E j \in Ids \ {lastCall.id} : get(This, j) # Null

\* C3: size is the number of present ids, and a traversal yields size
\* entries whose ids are pairwise distinct and are exactly the present ids.
C3_Density ==
  LET present == {id \in Ids : has(This, id)}
      it == iterator(This)
  IN  /\ size(This) = Cardinality(present)
      /\ Len(it) = size(This)
      /\ \A i, j \in 1 .. Len(it) : it[i].id = it[j].id => i = j
      /\ {it[i].id : i \in 1 .. Len(it)} = present
      /\ Len(ids(This)) = size(This)
      /\ \A i \in 1 .. Len(it) : ids(This)[i] = it[i].id

\* A present id that was not last was removed and two entries remain.
C3_Witness ==
  /\ lastCall.name = "remove"
  /\ lastCall.idx # NotFound
  /\ lastCall.idx < lastCall.size - 1
  /\ size(This) >= 2

\* C4: remove(id) of a present id at dense index i makes id absent and
\* shrinks dense and data by one; if i was not the last index the pair that
\* was last is at index i afterwards and sparse points to i for it; if i was
\* last nothing moves; every entry other than the removed and the moved one
\* keeps its dense index, and every entry other than the removed one its
\* value.
C4_SwapRemove ==
  [][\A id \in Ids :
       (lastCall'.name = "remove" /\ lastCall'.id = id /\ has(This, id)) =>
         LET i == tryGetIndex(This, id)
             last == Len(dense) - 1
             lastId == ArrayGet(dense, last)
         IN  /\ ~has(This', id)
             /\ Len(dense') = Len(dense) - 1
             /\ Len(data') = Len(data) - 1
             /\ i # last =>
                  /\ ArrayGet(dense', i) = lastId
                  /\ ArrayGet(data', i) = ArrayGet(data, last)
                  /\ sparse'[lastId] = i
                  /\ tryGetIndex(This', lastId) = i
             /\ i = last => dense' = ArrayPop(dense) /\ data' = ArrayPop(data)
             /\ \A j \in Ids \ {id} :
                  has(This, j) =>
                    /\ has(This', j)
                    /\ get(This', j) = get(This, j)
                    /\ (i = last \/ j # lastId)
                         => tryGetIndex(This', j) = tryGetIndex(This, j)]_vars

\* The first of three entries was removed: the last one took its slot and
\* the middle one stayed.
C4_Witness ==
  /\ lastCall.name = "remove"
  /\ lastCall.idx = 0
  /\ lastCall.size = 3
  /\ size(This) = 2

\* C5: add(id, v2) on a present id overwrites only that id's value: size,
\* the id's dense index, dense order and every other id's value stay,
\* get(id) is v2 afterwards and the call returns v2.
C5_Overwrite ==
  [][\A id \in Ids :
       (lastCall'.name = "add" /\ lastCall'.id = id /\ has(This, id)) =>
         /\ size(This') = size(This)
         /\ tryGetIndex(This', id) = tryGetIndex(This, id)
         /\ dense' = dense
         /\ \A j \in Ids \ {id} : get(This', j) = get(This, j)
         /\ get(This', id) = lastCall'.value
         /\ lastCall'.ret = lastCall'.value]_vars

\* A present id that is not the last of the dense array was overwritten.
C5_Witness ==
  /\ lastCall.name = "add"
  /\ lastCall.idx # NotFound
  /\ lastCall.idx < lastCall.size - 1

\* C6: remove(id) of an absent id changes nothing (size, dense order, has,
\* get and tryGetIndex of every id), so that a second remove(id) after any
\* remove(id) has no further effect.
C6_RemoveAbsentNoOp ==
  [][\A id \in Ids :
       (lastCall'.name = "remove" /\ lastCall'.id = id) =>
         /\ ~has(This, id) =>
              /\ This' = This
              /\ size(This') = size(This)
              /\ \A j \in Ids :
                   /\ has(This', j) = has(This, j)
                   /\ get(This', j) = get(This, j)
                   /\ tryGetIndex(This', j) = tryGetIndex(This, j)
         /\ remove(This', id).st = This']_vars

\* An id beyond the sparse length was removed from a set that is not empty.
C6_Witness ==
  /\ lastCall.name = "remove"
  /\ lastCall.idx = NotFound
  /\ lastCall.id >= sparseLen
  /\ size(This) >= 1

\* C7: after clear() size is 0 and every id is absent (has false, get null,
\* tryGetIndex -1), and the object is field by field a newly constructed
\* one, so that whatever is called next returns what it returns on a new set.
C7_ClearResets ==
  lastCall.name = "clear" =>
    /\ size(This) = 0
    /\ \A id \in Ids :
         ~has(This, id) /\ get(This, id) = Null /\ tryGetIndex(This, id) = NotFound
    /\ This = NewSet

\* A set of two or more entries was cleared.
C7_Witness == lastCall.name = "clear" /\ lastCall.size >= 2

\* C8: ensure(id, factory) on a present id does not call factory, returns
\* the value stored for id and leaves the whole state unchanged.
C8_EnsureHit ==
  [][\A id \in Ids :
       (lastCall'.name = "ensure" /\ lastCall'.id = id /\ has(This, id)) =>
         /\ lastCall'.calls = 0
         /\ lastCall'.ret = get(This, id)
         /\ This' = This]_vars

\* ensure hit an id whose value is not the one the factory would have made.
C8_Witness ==
  /\ lastCall.name = "ensure"
  /\ lastCall.idx # NotFound
  /\ lastCall.calls = 0
  /\ lastCall.ret # lastCall.value

\* C9: ensure(id, factory) on an absent id calls factory once, returns the
\* value v it made and leaves the state add(id, v) leaves from the same
\* state (dense, data, sparse contents and length).
C9_EnsureMissIsAdd ==
  [][\A id \in Ids :
       (lastCall'.name = "ensure" /\ lastCall'.id = id /\ ~has(This, id)) =>
         /\ lastCall'.calls = 1
         /\ lastCall'.ret = lastCall'.value
         /\ This' = add(This, id, lastCall'.ret).st
         /\ add(This, id, lastCall'.ret).ret = lastCall'.ret]_vars

\* ensure inserted an id at or beyond the sparse length into a set that
\* held an entry already.
C9_Witness ==
  /\ lastCall.name = "ensure"
  /\ lastCall.idx = NotFound
  /\ lastCall.calls = 1
  /\ lastCall.id = MinCapacity
  /\ lastCall.size >= 1

\* C10: for a present id tryGetIndex(id) is an index i, 0 <= i < size, at
\* which a traversal yields (id, get(id)); for an absent id it is -1; right
\* after add(id, v) the entry at tryGetIndex(id) is (id, v).
C10_TryGetIndexRoundTrip ==
  LET it == iterator(This)
  IN  /\ \A id \in Ids :
           IF has(This, id)
             THEN LET i == tryGetIndex(This, id)
                  IN  /\ 0 <= i /\ i < size(This)
                      /\ it[i + 1] = [id |-> id, value |-> get(This, id)]
             ELSE tryGetIndex(This, id) = NotFound
      /\ lastCall.name = "add" =>
           LET i == tryGetIndex(This, lastCall.id)
           IN  /\ 0 <= i /\ i < size(This)
               /\ it[i + 1] = [id |-> lastCall.id, value |-> lastCall.value]

\* An id was added behind another entry, and an absent id reads -1.
C10_Witness ==
  /\ lastCall.name = "add"
  /\ tryGetIndex(This, lastCall.id) >= 1
  /\ \E j \in Ids : tryGetIndex(This, j) = NotFound

\* C11: add(id, v) with an id at or beyond the sparse length (an empty set
\* included) succeeds: has(id) is true and get(id) is v afterwards, and
\* every id present before keeps its presence, its value and its dense index.
C11_GrowthKeepsEntries ==
  [][\A id \in Ids :
       (lastCall'.name = "add" /\ lastCall'.id = id /\ id >= sparseLen) =>
         /\ has(This', id)
         /\ get(This', id) = lastCall'.value
         /\ sparseLen' > id
         /\ \A j \in Ids \ {id} :
              has(This, j) =>
                /\ has(This', j)
                /\ get(This', j) = get(This, j)
                /\ tryGetIndex(This', j) = tryGetIndex(This, j)]_vars

\* The id at the end of a sparse array of the first capacity was added to a
\* set that holds two entries, and the array doubled.
C11_Witness ==
  /\ lastCall.name = "add"
  /\ lastCall.id = MinCapacity
  /\ lastCall.sparseLen = MinCapacity
  /\ lastCall.size = 2
  /\ sparseLen = 2 * MinCapacity
  /\ has(This, lastCall.id)

\* C12: on a set that is not mutated meanwhile the five traversals visit
\* the dense indices 0 .. size-1 in increasing order and agree: the k-th id
\* of ids(), value of values(), pair of entries(), {id, value} of the
\* iterator and (value, id) of forEach are dense[k] and data[k].
C12_TraversalsAgree ==
  LET n == size(This)
  IN  /\ Len(iterator(This)) = n
      /\ Len(ids(This)) = n
      /\ Len(values(This)) = n
      /\ Len(entries(This)) = n
      /\ Len(forEach(This)) = n
      /\ \A k \in 0 .. n - 1 :
           /\ ids(This)[k + 1] = dense[k + 1]
           /\ values(This)[k + 1] = data[k + 1]
           /\ entries(This)[k + 1] = <<dense[k + 1], data[k + 1]>>
           /\ iterator(This)[k + 1] = [id |-> dense[k + 1], value |-> data[k + 1]]
           /\ forEach(This)[k + 1] = <<data[k + 1], dense[k + 1]>>

\* Two entries are traversed after a removal put the later-inserted id
\* first, with values that tell the two apart.
C12_Witness ==
  /\ lastCall.name = "remove"
  /\ lastCall.idx = 0
  /\ lastCall.size = 3
  /\ Len(entries(This)) = 2
  /\ values(This)[1] # values(This)[2]

\* C14: dense and data have the same length, dense holds no identifier
\* twice, and sparse[dense[i]] = i for every index i of dense.
C14_StructuralInvariant ==
  /\ Len(dense) = Len(data)
  /\ \A i, j \in 1 .. Len(dense) : dense[i] = dense[j] => i = j
  /\ \A i \in 1 .. Len(dense) : dense[i] \in Ids /\ sparse[dense[i]] = i - 1

\* Two entries are left where the last one was moved into a freed slot.
C14_Witness ==
  /\ lastCall.name = "remove"
  /\ lastCall.idx = 0
  /\ lastCall.size = 3
  /\ Len(dense) = 2
  /\ Len(data) = 2

\* C15: no sparse slot holds a stale index: a defined sparse[id] is an
\* index of dense at which dense holds id; sparse[id] is undefined right
\* after remove(id) and for every id after clear(); so has, which makes no
\* range check, answers as the test with the range check does and as the
\* earlier implementation does.
C15_NoStaleSparse ==
  /\ \A id \in Ids :
       /\ sparse[id] # Undefined =>
            /\ 0 <= sparse[id]
            /\ sparse[id] < Len(dense)
            /\ ArrayGet(dense, sparse[id]) = id
       /\ has(This, id) <=>
            (/\ sparse[id] # Undefined
             /\ 0 <= sparse[id]
             /\ sparse[id] < Len(dense)
             /\ ArrayGet(dense, sparse[id]) = id)
       /\ has(This, id) <=> hasRangeChecked(This, id)
  /\ lastCall.name = "remove" => sparse[lastCall.id] = Undefined
  /\ lastCall.name = "clear" => \A id \in Ids : sparse[id] = Undefined

\* A present id was removed from the last slot while another entry stays:
\* its old index is past the end of dense.
C15_Witness ==
  /\ lastCall.name = "remove"
  /\ lastCall.idx = lastCall.size - 1
  /\ lastCall.idx >= 1
  /\ sparse[lastCall.id] = Undefined

\* C16: tryGetIndex(X) of a present X changes only by remove(X), by
\* clear(), or by remove(Y) of a present Y other than X while X is in the
\* last dense slot, X then taking the index Y had; every other call (add,
\* ensure, remove of an absent id, remove(Y) while X is not last) leaves it.
C16_IndexFrame ==
  [][\A x \in Ids :
       has(This, x) =>
         LET last == Len(dense) - 1
             swapped == /\ lastCall'.name = "remove"
                        /\ lastCall'.id # x
                        /\ has(This, lastCall'.id)
                        /\ tryGetIndex(This, x) = last
         IN  /\ tryGetIndex(This', x) # tryGetIndex(This, x) =>
                  \/ lastCall'.name = "remove" /\ lastCall'.id = x
                  \/ lastCall'.name = "clear"
                  \/ swapped
             /\ swapped => tryGetIndex(This', x) = tryGetIndex(This, lastCall'.id)
             /\ lastCall'.name \in {"add", "ensure"}
                  => tryGetIndex(This', x) = tryGetIndex(This, x)]_vars

\* The first of two entries was removed, the other took index 0.
C16_Witness ==
  /\ lastCall.name = "remove"
  /\ lastCall.idx = 0
  /\ lastCall.size = 2
  /\ \E x \in Ids : tryGetIndex(This, x) = 0

\* C17: add(id, v) of an absent id appends: tryGetIndex(id) is the size
\* before the call, size grows by one, and every id present before keeps
\* its dense index and its value; so also for an id that was present and
\* has been removed, which goes to the end and not to its old slot.
C17_AddAppends ==
  [][\A id \in Ids :
       (lastCall'.name = "add" /\ lastCall'.id = id /\ ~has(This, id)) =>
         /\ tryGetIndex(This', id) = size(This)
         /\ size(This') = size(This) + 1
         /\ get(This', id) = lastCall'.value
         /\ \A j \in Ids \ {id} :
              has(This, j) =>
                /\ tryGetIndex(This', j) = tryGetIndex(This, j)
                /\ get(This', j) = get(This, j)]_vars

\* An id removed from index 0 by the call before is added again and lands
\* at the end, behind the entry that took its slot.
C17_Witness ==
  /\ lastCall.name = "add"
  /\ lastCall.idx = NotFound
  /\ lastCall.prevIdx = 0
  /\ lastCall.size >= 1
  /\ tryGetIndex(This, lastCall.id) = lastCall.size

\* C18: in a history without a remove of a present id and without a clear,
\* the traversals yield the ids in the order of their first insertion by
\* add or ensure; an overwriting add moves no id.
C18_InsertionOrder ==
  /\ ids(This) = order
  /\ Len(iterator(This)) = Len(order)
  /\ \A k \in 1 .. Len(order) :
       iterator(This)[k].id = order[k] /\ entries(This)[k][1] = order[k]

\* The first-inserted of three ids was overwritten by an add.
C18_Witness ==
  /\ lastCall.name = "add"
  /\ lastCall.idx = 0
  /\ lastCall.size = 3
  /\ Len(order) = 3

\* C13: a traversal of any form over a set that is not changed meanwhile
\* takes at most size steps, is finished when it has taken size steps, and
\* has then yielded the contents of the set as they are, whatever calls
\* and traversals came before its start.
C13_TraversalBounded ==
  (trav.form # "none" /\ trav.clean) =>
    /\ trav.i <= size(This)
    /\ Len(trav.out) = trav.i
    /\ \A k \in 1 .. Len(trav.out) :
         trav.out[k] = [id |-> IF trav.form = "values" THEN NoField ELSE dense[k],
                        value |-> IF trav.form = "ids" THEN NoField ELSE data[k]]
    /\ trav.done => trav.i = size(This)

\* A traversal of a set of two or more entries ran to its end undisturbed.
C13_Witness ==
  /\ trav.form # "none"
  /\ trav.clean
  /\ trav.done
  /\ Len(trav.out) >= 2

\* C20 as claimed: with add, remove and clear called between the steps of
\* a traversal of any form, every element a step yields is a live entry
\* when it is yielded (has(id) holds, the value is get(id)) and the step
\* reads inside dense and data.
C20_YieldsLiveAllForms ==
  [][(trav.form # "none" /\ trav'.form = trav.form /\ trav'.i = trav.i + 1) =>
       LET e == travYield(This, trav.form, trav.i)
           at == {id \in Ids : has(This, id) /\ tryGetIndex(This, id) = trav.i}
       IN  /\ trav.i < Len(dense)
           /\ trav.i < Len(data)
           /\ \E id \in at :
                /\ e.id \in {NoField, id}
                /\ e.value \in {NoField, get(This, id)}]_vars

\* C20 amended: so it is for ids(), values(), entries() and forEach, which
\* read the length again before every step; the iterator, which read the
\* length once at its start, yields a live entry while its index is inside
\* dense and {id: undefined, value: undefined} from past the end otherwise.
C20_YieldsLiveRereadForms ==
  [][(trav.form # "none" /\ trav'.form = trav.form /\ trav'.i = trav.i + 1) =>
       LET e == travYield(This, trav.form, trav.i)
           at == {id \in Ids : has(This, id) /\ tryGetIndex(This, id) = trav.i}
           live == /\ trav.i < Len(dense)
                   /\ trav.i < Len(data)
                   /\ \E id \in at :
                        /\ e.id \in {NoField, id}
                        /\ e.value \in {NoField, get(This, id)}
       IN  IF trav.form = "iterator" /\ trav.i >= Len(dense)
             THEN e = [id |-> Undefined, value |-> Undefined]
             ELSE live]_vars

\* A traversal that reads the length at every step yielded its second
\* element or a later one after the set was changed under it.
C20_Witness ==
  /\ trav.form \in {"ids", "values", "entries", "forEach"}
  /\ trav.late
  /\ trav.i >= 2

\* C19: when ensure(id, factory) returns, also after a factory that called
\* add, ensure, remove or clear on the set, id occurs exactly once in dense,
\* size is the number of present ids, and get(id) is the value returned.
C19_EnsureAtomicUnderReentry ==
  ens.pc = "returned" =>
    /\ Cardinality({i \in 1 .. Len(dense) : dense[i] = ens.id}) = 1
    /\ size(This) = Cardinality({id \in Ids : has(This, id)})
    /\ get(This, ens.id) = ens.ret

\* C21: from a state in which id is absent, add(id, v) followed at once by
\* remove(id) restores size, dense order, every value and every
\* tryGetIndex, and the contents of sparse too; only the length of sparse
\* may have grown.
C21_AddRemoveRoundTrip ==
  \A id \in Ids, v \in Values :
    ~has(This, id) =>
      LET added == add(This, id, v).st
          back == remove(added, id).st
      IN  /\ has(added, id)
          /\ size(back) = size(This)
          /\ back.dense = dense
          /\ back.data = data
          /\ \A j \in Ids :
               /\ has(back, j) = has(This, j)
               /\ get(back, j) = get(This, j)
               /\ tryGetIndex(back, j) = tryGetIndex(This, j)
          /\ back.sparse = sparse
          /\ back.sparseLen >= sparseLen

\* Two entries are present, the id at the end of the sparse array is
\* absent, and adding and removing it leaves the array doubled.
C21_Witness ==
  /\ size(This) = 2
  /\ ~has(This, MinCapacity)
  /\ sparseLen = MinCapacity
  /\ remove(add(This, MinCapacity, NumVals).st, MinCapacity).st.sparseLen = 2 * MinCapacity
  /\ remove(add(This, MinCapacity, NumVals).st, MinCapacity).st.dense = dense

\* C22 as claimed: the length of sparse never decreases, whatever the call,
\* clear() included.
C22_SparseNeverShrinks == [][sparseLen' >= sparseLen]_vars

\* C22 amended: add, ensure and remove never decrease the length of
\* sparse (remove leaves it as it is); clear() sets it to 0, from where
\* later insertions grow it again.
C22_SparseShrinksOnlyOnClear ==
  [][/\ lastCall'.name \in {"add", "ensure"} => sparseLen' >= sparseLen
     /\ lastCall'.name = "remove" => sparseLen' = sparseLen
     /\ lastCall'.name = "clear" => sparseLen' = 0]_vars

\* The set was emptied by a remove and sparse kept its doubled length.
C22_Witness ==
  /\ lastCall.name = "remove"
  /\ lastCall.idx # NotFound
  /\ size(This) = 0
  /\ lastCall.sparseLen = 2 * MinCapacity
  /\ sparseLen = 2 * MinCapacity

\* The length the growth policy prescribes for a sparse array of length
\* len asked to hold minId: len itself when minId is below it, else the
\* smallest of first, 2 * first, 4 * first, ... above minId, where first is
\* MinCapacity for an empty array and 2 * len otherwise.
PolicyLength(len, minId) ==
  LET first == IF len = 0 THEN MinCapacity ELSE 2 * len
      steps == {first * Pow2(k) : k \in 0 .. MaxExp + 2}
  IN  IF minId < len
        THEN len
        ELSE CHOOSE n \in steps : n > minId /\ \A m \in steps : m > minId => n <= m

\* C23: growSparse(minId) leaves the length of sparse when minId is below
\* it and sets it to the length the policy prescribes otherwise, touching
\* no slot; add and ensure of an absent id leave sparse that long; so the
\* length is 0 or MinCapacity times a power of two in every reachable
\* state, and above every present id.
C23_GrowthPolicy ==
  /\ [](/\ \/ sparseLen = 0
           \/ \E k \in 0 .. MaxExp + 2 : sparseLen = MinCapacity * Pow2(k)
        /\ \A id \in GrowIds :
             /\ has(This, id) => id < sparseLen
             /\ growSparse(This, id).sparseLen = PolicyLength(sparseLen, id)
             /\ growSparse(This, id).sparseLen > id
             /\ growSparse(This, id).sparse = sparse
             /\ id < sparseLen => growSparse(This, id) = This)
  /\ [][\A id \in GrowIds :
          (lastCall'.name \in {"add", "ensure"} /\ lastCall'.id = id /\ ~has(This, id))
            => sparseLen' = PolicyLength(sparseLen, id)]_vars

\* An id of four times the first capacity was added to an empty, never
\* grown set: the array went through 1024, 2048 and 4096 to 8192.
C23_Witness ==
  /\ lastCall.name = "add"
  /\ lastCall.sparseLen = 0
  /\ lastCall.id = 4 * MinCapacity
  /\ sparseLen = 8 * MinCapacity
  /\ has(This, lastCall.id)

====
